---- MODULE Spec2Model ----
(***************************************************************************)
(* Scene interaction and history engine of the fabric image editor:        *)
(* HistoryManager (snapshot undo/redo with debounce), ToolsManager (shape  *)
(* construction and bound shape/bubble texts), PropertiesManager (delete), *)
(* CropManager (immediate commits) and IOManager (project import).         *)
(*                                                                         *)
(* Abstractions.  An object's geometry is its centre point on a small      *)
(* integer grid whose unit is half the bubble tail size (7.5 px), so that  *)
(* the bubble text offset (tailSize / 2) is one unit.  A snapshot (the     *)
(* JSON string of canvas.toJSON) is the sequence of the serialized         *)
(* attribute records; string equality is equality of these sequences.      *)
(* Object identity is the index in the canvas object list; a reference to  *)
(* an object that is no longer in the list is Detached.  Widths and        *)
(* heights are in pixels; left and top are the pixel offsets of the        *)
(* top-left corner from the point the object was created at.  The size of  *)
(* a bound text is not followed.  selectable and evented are always set    *)
(* together and are one attribute, evented.  Style attributes (stroke,     *)
(* fill) are not part of the records, and the selection is the parameter   *)
(* of the operation acting on it.                                          *)
(***************************************************************************)
EXTENDS Integers, Sequences, FiniteSets, TLC

\* ------------------------------------------------------------------ bounds
MaxStates == 3      \* HistoryManager.maxStates (constructor argument)
MaxObjects == 4     \* objects on the canvas when a construction may start
MaxY == 1           \* grid rows 0..MaxY
MaxSel == 2         \* size of a multi-selection
MaxImages == 2      \* images on the canvas when another may be added
MaxCropObjects == 3 \* objects on the canvas once crop mode is entered
MaxBurst == 3       \* saveState calls counted in one burst
MaxX == 1           \* grid columns 0..MaxX of the relink scenes
MaxScale == 2       \* scale factors 1..MaxScale

Detached == -1      \* reference to an object that is not on the canvas
BubbleTextOffset == 1   \* tailSize / 2, in grid units

\* minimum and default sizes of a finished construction, in pixels
MinShapeWidth == 60
MinShapeHeight == 40
DefaultShapeWidth == 100
DefaultShapeHeight == 80
MinTextWidth == 80
DragMinTextWidth == 50
DefaultTextWidth == 150
MinBubbleWidth == 100
MinBubbleHeight == 60
DragMinBubbleWidth == 80
DragMinBubbleHeight == 50
DefaultBubbleWidth == 150
DefaultBubbleHeight == 80

PlaceholderText == "placeholder"    \* the prompt shown by an empty text

Points == {<<0, y>> : y \in 0..MaxY}
CanvasCenter == <<0, 0>>

ShapeTools == {"rect", "circle", "triangle", "line", "arrow"}
ClickSelectTools == {"rect", "circle", "triangle", "line", "arrow", "text", "bubble"}
BoundShapeTools == {"rect", "circle", "triangle"}

VARIABLES
    canvas,         \* canvas._objects: sequence of object records
    undoStack,      \* HistoryManager.undoStack
    redoStack,      \* HistoryManager.redoStack
    isRestoring,    \* HistoryManager.isRestoring
    isSaving,       \* HistoryManager.isSaving
    debounceTimer,  \* HistoryManager.debounceTimer: "null", "live", "stale"
    timers,         \* number of pending setTimeout callbacks of saveState
    loading,        \* the loadFromJSON promise of restoreState and its snapshot
    currentTool,    \* ToolsManager.currentTool
    isDrawingShape, \* ToolsManager.isDrawingShape
    currentShape,   \* ToolsManager.currentShape
    startPoint,     \* ToolsManager.startPoint
    crop,           \* CropManager: isCropping, targetImage, cropRect, overlay
    \* history variables of the verification (never read by the editor)
    floor,          \* the snapshot committed at start-up or by the last clear()
    rt,             \* commits pushed and undos issued since that snapshot
    ur,             \* stacks and collection just before an undo() .. redo()
    burst,          \* the running burst of saveState calls
    op,             \* the last operation
    scene           \* the scene a snapshot was taken of

coreVars == <<canvas, undoStack, redoStack, isRestoring, isSaving, debounceTimer,
              timers, loading, currentTool, isDrawingShape, currentShape,
              startPoint, crop>>

NoLoad == [active |-> FALSE, state |-> <<>>]
NoPoint == <<>>
NoShape == [ref |-> 0, type |-> "", shapeType |-> ""]
NoCrop == [isCropping |-> FALSE, targetImage |-> 0, cropRect |-> 0, overlay |-> 0]

\* ----------------------------------------------------------------- objects
NewObject(type, shapeType, p, name, src) ==
    [type |-> type, shapeType |-> shapeType, x |-> p[1], y |-> p[2],
     name |-> name, src |-> src,
     left |-> 0, top |-> 0,
     width |-> 0, height |-> 0, scaleX |-> 1, scaleY |-> 1, angle |-> 0,
     text |-> "", isPlaceholder |-> FALSE, evented |-> TRUE,
     isEditing |-> FALSE, events |-> {},
     boundText |-> 0, boundShape |-> 0, boundBubble |-> 0]

\* canvas.toJSON([...]) + JSON.stringify: attributes only, no object references
SerializeObject(o) ==
    [type |-> o.type, shapeType |-> o.shapeType, x |-> o.x, y |-> o.y,
     name |-> o.name, src |-> o.src,
     left |-> o.left, top |-> o.top,
     width |-> o.width, height |-> o.height,
     scaleX |-> o.scaleX, scaleY |-> o.scaleY, angle |-> o.angle,
     text |-> o.text, isPlaceholder |-> o.isPlaceholder, evented |-> o.evented]

Serialize(objs) == [i \in 1..Len(objs) |-> SerializeObject(objs[i])]

\* canvas.loadFromJSON: fresh instances, no relationship references and no
\* event handlers
LoadFromJSON(snap) ==
    [i \in 1..Len(snap) |->
        [NewObject(snap[i].type, snap[i].shapeType, <<snap[i].x, snap[i].y>>,
                   snap[i].name, snap[i].src)
            EXCEPT !.left = snap[i].left, !.top = snap[i].top,
                   !.width = snap[i].width, !.height = snap[i].height,
                   !.scaleX = snap[i].scaleX, !.scaleY = snap[i].scaleY,
                   !.angle = snap[i].angle,
                   !.text = snap[i].text, !.isPlaceholder = snap[i].isPlaceholder,
                   !.evented = snap[i].evented]]

IsBindableShape(o) == o.shapeType \in {"bubble", "rect", "circle", "triangle"}
IsShapeText(o) == o.shapeType \in {"bubbleText", "shapeText"}
IsClaimed(o) == o.boundBubble # 0 \/ o.boundShape # 0

OnCanvas(objs, ref) == ref \in 1..Len(objs)

\* ------------------------------------------------- relationship model
\* squared Euclidean distance between centres (Math.sqrt is monotone)
Dist2(a, b) == (a.x - b.x) * (a.x - b.x) + (a.y - b.y) * (a.y - b.y)

\* seeded faults of the nearest-text search: claimed texts are not skipped;
\* the last text encountered wins ties; the farthest text is taken
ClosestTextAny(objs, s) ==
    LET cand == {j \in 1..Len(objs) : IsShapeText(objs[j])}
        d(j) == Dist2(objs[s], objs[j])
    IN IF cand = {} THEN 0
       ELSE CHOOSE j \in cand :
              \A k \in cand : d(j) < d(k) \/ (d(j) = d(k) /\ j <= k)

ClosestTextLastTie(objs, s) ==
    LET cand == {j \in 1..Len(objs) : IsShapeText(objs[j]) /\ ~IsClaimed(objs[j])}
        d(j) == Dist2(objs[s], objs[j])
    IN IF cand = {} THEN 0
       ELSE CHOOSE j \in cand :
              \A k \in cand : d(j) < d(k) \/ (d(j) = d(k) /\ j >= k)

FarthestText(objs, s) ==
    LET cand == {j \in 1..Len(objs) : IsShapeText(objs[j]) /\ ~IsClaimed(objs[j])}
        d(j) == Dist2(objs[s], objs[j])
    IN IF cand = {} THEN 0
       ELSE CHOOSE j \in cand :
              \A k \in cand : d(j) > d(k) \/ (d(j) = d(k) /\ j <= k)

\* shapeTexts.forEach of restoreBubbleTextBindings: the unclaimed text at
\* minimal distance, the first encountered winning ties (distance < minDistance)
ClosestText(objs, s) ==
    LET cand == {j \in 1..Len(objs) : IsShapeText(objs[j]) /\ ~IsClaimed(objs[j])}
        d(j) == Dist2(objs[s], objs[j])
    IN IF cand = {} THEN 0
       ELSE CHOOSE j \in cand :
              \A k \in cand : d(j) < d(k) \/ (d(j) = d(k) /\ j <= k)

\* the two-way reference set when a shape and a text are bound
BindPair(objs, s, t) ==
    [objs EXCEPT ![s].boundText = t,
                 ![t].boundBubble = IF objs[s].shapeType = "bubble" THEN s ELSE @,
                 ![t].boundShape = IF objs[s].shapeType = "bubble" THEN @ ELSE s,
                 ![t].events = @ \cup (IF objs[s].shapeType = "bubble"
                                       THEN {"bubbleText"} ELSE {"shapeText"})]

\* bindableShapes.forEach over the shapes at indices s..e, in collection order
RECURSIVE RelinkRange(_, _, _)
RelinkRange(objs, s, e) ==
    IF s > e THEN objs
    ELSE IF IsBindableShape(objs[s])
         THEN LET t == ClosestText(objs, s)
              IN RelinkRange(IF t # 0 THEN BindPair(objs, s, t) ELSE objs, s + 1, e)
         ELSE RelinkRange(objs, s + 1, e)

\* seeded fault: the restore does not relink
NoRelink(objs) == objs

RestoreBubbleTextBindings(objs) == RelinkRange(objs, 1, Len(objs))

\* seeded fault: the restore re-attaches nothing
NoSetup(objs) == objs

\* forEachObject(obj => { obj.selectable = v; obj.evented = v })
SetEvented(objs, v) == [i \in 1..Len(objs) |-> [objs[i] EXCEPT !.evented = v]]

\* restoreState, canvas.forEachObject: every object but the crop rectangle is
\* made selectable; setupRestoredTextBox on every textbox that is not a
\* bubble text
SetupRestoredTextBoxes(objs) ==
    [i \in 1..Len(objs) |->
        LET o == IF objs[i].name # "cropRect" THEN [objs[i] EXCEPT !.evented = TRUE]
                 ELSE objs[i]
        IN IF o.type = "textbox" /\ o.shapeType # "bubbleText"
           THEN [o EXCEPT !.events = @ \cup {"restored"}]
           ELSE o]

\* the collection once the loadFromJSON promise of restoreState has resolved
Restored(snap) == RestoreBubbleTextBindings(SetupRestoredTextBoxes(LoadFromJSON(snap)))

\* updateTextPositionForShape: the text sits on the centre of the shape
TextPositionForShape(shape) == <<shape.x, shape.y>>

\* updateTextPositionForBubble: the text sits above the tail
TextPositionForBubble(bubble) ==
    <<bubble.x, bubble.y - BubbleTextOffset * bubble.scaleY>>

\* textbox.set({left, top, scaleX, scaleY, angle}) of both updateTextPosition
\* functions
PlaceText(text, container, p) ==
    [text EXCEPT !.x = p[1], !.y = p[2], !.scaleX = container.scaleX,
                 !.scaleY = container.scaleY, !.angle = container.angle]

\* object 'removed' handlers registered by bindShapeTextEvents,
\* setupShapeTextEvents, bindBubbleTextEvents, setupBubbleTextEvents:
\* the object the handler of objs[i] removes (0: no handler)
RemovedHandlerTarget(objs, i) ==
    IF objs[i].boundText # 0 THEN objs[i].boundText
    ELSE IF objs[i].boundShape # 0 THEN objs[i].boundShape
    ELSE objs[i].boundBubble

\* seeded fault: no 'removed' handler runs
CanvasRemoveOnly(objs, R, i) ==
    IF ~OnCanvas(objs, i) \/ i \in R THEN R ELSE R \cup {i}

\* canvas.remove(obj): the object leaves the list, then its 'removed' handler
\* runs; R is the set of indices already removed in this operation
RECURSIVE CanvasRemove(_, _, _)
CanvasRemove(objs, R, i) ==
    IF ~OnCanvas(objs, i) \/ i \in R THEN R
    ELSE LET t == RemovedHandlerTarget(objs, i)
         IN IF OnCanvas(objs, t) /\ t \notin R \cup {i}
            THEN CanvasRemove(objs, R \cup {i}, t)
            ELSE R \cup {i}

NewIndex(R, i) == i - Cardinality({r \in R : r < i})
RemapRef(R, ref) ==
    IF ref \in R THEN Detached ELSE IF ref <= 0 THEN ref ELSE NewIndex(R, ref)

\* the object list once the indices in R have left it
Without(objs, R) ==
    LET keep == (1..Len(objs)) \ R
        old(k) == CHOOSE i \in keep : NewIndex(R, i) = k
    IN [k \in 1..Cardinality(keep) |->
          [objs[old(k)] EXCEPT !.boundText = RemapRef(R, @),
                               !.boundShape = RemapRef(R, @),
                               !.boundBubble = RemapRef(R, @)]]

RemapShape(R, cs) == [cs EXCEPT !.ref = RemapRef(R, @)]
RemapCrop(R, c) == [c EXCEPT !.targetImage = RemapRef(R, @),
                             !.cropRect = RemapRef(R, @),
                             !.overlay = RemapRef(R, @)]

\* ------------------------------------------------------ history manager
History == [undoStack |-> undoStack, redoStack |-> redoStack,
            isRestoring |-> isRestoring, isSaving |-> isSaving,
            debounceTimer |-> debounceTimer, timers |-> timers]

SetHistory(h) ==
    /\ undoStack' = h.undoStack
    /\ redoStack' = h.redoStack
    /\ isRestoring' = h.isRestoring
    /\ isSaving' = h.isSaving
    /\ debounceTimer' = h.debounceTimer
    /\ timers' = h.timers

\* seeded fault: the pending timeout is left running
NoClearTimeout(h) == h.timers

\* seeded fault: the pending timeout is cancelled only when two are pending
ClearTimeoutSecond(h) ==
    IF h.debounceTimer = "live" /\ h.timers > 1 THEN h.timers - 1 ELSE h.timers

\* clearTimeout(this.debounceTimer): cancels the timeout if it is still pending
ClearTimeout(h) == IF h.debounceTimer = "live" THEN h.timers - 1 ELSE h.timers

\* seeded fault: push without the shift
PushUnlimited(stack, stateStr) == Append(stack, stateStr)

\* undoStack after push and the shift that limits it to maxStates
PushLimited(stack, stateStr) ==
    LET pushed == Append(stack, stateStr)
    IN IF Len(pushed) > MaxStates THEN Tail(pushed) ELSE pushed

\* seeded fault: the commit compares with the oldest entry of undoStack
DoSaveStateDedupeFirst(h, objs) ==
    IF h.isRestoring \/ h.isSaving THEN h
    ELSE LET stateStr == Serialize(objs)
         IN IF Len(h.undoStack) > 0 /\ h.undoStack[1] = stateStr
            THEN h
            ELSE [h EXCEPT !.undoStack = PushLimited(h.undoStack, stateStr),
                           !.redoStack = <<>>]

\* seeded fault: the commit does not compare with the top of undoStack
DoSaveStateNoDedupe(h, objs) ==
    IF h.isRestoring \/ h.isSaving THEN h
    ELSE [h EXCEPT !.undoStack = PushLimited(h.undoStack, Serialize(objs)),
                   !.redoStack = <<>>]

\* seeded fault: the commit leaves redoStack as it is
DoSaveStateKeepsRedo(h, objs) ==
    IF h.isRestoring \/ h.isSaving THEN h
    ELSE LET stateStr == Serialize(objs)
         IN IF Len(h.undoStack) > 0 /\ h.undoStack[Len(h.undoStack)] = stateStr
            THEN h
            ELSE [h EXCEPT !.undoStack = PushLimited(h.undoStack, stateStr)]

\* _doSaveState
DoSaveState(h, objs) ==
    IF h.isRestoring \/ h.isSaving THEN h
    ELSE LET stateStr == Serialize(objs)
         IN IF Len(h.undoStack) > 0 /\ h.undoStack[Len(h.undoStack)] = stateStr
            THEN h
            ELSE [h EXCEPT !.undoStack = PushLimited(h.undoStack, stateStr),
                           !.redoStack = <<>>]

\* seeded fault: the pending timeout is not cancelled
SaveStateNoCancel(h) ==
    IF h.isRestoring \/ h.isSaving THEN h
    ELSE [h EXCEPT !.timers = h.timers + 1, !.debounceTimer = "live"]

\* seeded fault: the debounced request is not suppressed
SaveStateUnguarded(h) ==
    [h EXCEPT !.timers = ClearTimeout(h) + 1, !.debounceTimer = "live"]

\* saveState (debounced)
SaveState(h) ==
    IF h.isRestoring \/ h.isSaving THEN h
    ELSE [h EXCEPT !.timers = ClearTimeout(h) + 1, !.debounceTimer = "live"]

\* seeded fault: the immediate commit goes through the debounce
SaveStateDeferred(h, objs) == SaveState(h)

\* saveStateImmediate
SaveStateImmediate(h, objs) ==
    IF h.isRestoring \/ h.isSaving THEN h
    ELSE DoSaveState([h EXCEPT !.timers = ClearTimeout(h), !.debounceTimer = "null"],
                     objs)

\* clear
Clear(h, objs) ==
    SaveStateImmediate([h EXCEPT !.timers = ClearTimeout(h), !.debounceTimer = "null",
                                 !.undoStack = <<>>, !.redoStack = <<>>], objs)

\* -------------------------------------------------------- tools manager
\* createShape / createTextBox / createBubble: the object added at pointer-down
CreatedShape(tool, p) ==
    CASE tool = "rect" -> NewObject("rect", "rect", p, "", 0)
      [] tool = "circle" -> NewObject("ellipse", "circle", p, "", 0)
      [] tool = "triangle" -> NewObject("triangle", "triangle", p, "", 0)
      [] tool = "line" -> NewObject("line", "none", p, "", 0)
      [] tool = "arrow" -> NewObject("group", "none", p, "arrow", 0)
      [] tool = "text" -> [NewObject("textbox", "textbox", p, "", 0)
                              EXCEPT !.width = DefaultTextWidth,
                                     !.isPlaceholder = TRUE]
      [] tool = "bubble" -> [NewObject("path", "bubble", p, "", 0)
                                EXCEPT !.width = DefaultBubbleWidth,
                                       !.height = DefaultBubbleHeight]

\* the shape under construction as the handlers see it: the canvas object, or
\* the instance currentShape still references after it left the canvas
ShapeOf(objs, cs, sp) ==
    IF OnCanvas(objs, cs.ref) THEN objs[cs.ref]
    ELSE NewObject(cs.type, cs.shapeType, sp, "", 0)

\* createBoundTextForShape: text added, two-way reference set
CreateBoundTextForShape(objs, cs, sp) ==
    LET t == Len(objs) + 1
        shape == ShapeOf(objs, cs, sp)
        text == [PlaceText(NewObject("textbox", "shapeText", sp, "", 0), shape,
                           TextPositionForShape(shape))
                    EXCEPT !.boundShape = cs.ref, !.events = {"shapeText"}]
        added == Append(objs, text)
    IN IF OnCanvas(objs, cs.ref) THEN [added EXCEPT ![cs.ref].boundText = t]
       ELSE added

\* createBoundTextForBubble
CreateBoundTextForBubble(objs, cs, sp) ==
    LET t == Len(objs) + 1
        bubble == ShapeOf(objs, cs, sp)
        text == [PlaceText(NewObject("textbox", "bubbleText", sp, "", 0), bubble,
                           TextPositionForBubble(bubble))
                    EXCEPT !.boundBubble = cs.ref, !.events = {"bubbleText"},
                           !.text = PlaceholderText, !.isPlaceholder = TRUE]
        added == Append(objs, text)
    IN IF OnCanvas(objs, cs.ref) THEN [added EXCEPT ![cs.ref].boundText = t]
       ELSE added

\* the attribute the size of an object is kept in: rx / ry for an ellipse,
\* _bubbleWidth / _bubbleHeight for a bubble, width / height otherwise
HasWidthProp(o) == o.shapeType \notin {"circle", "bubble"}

\* finalizeTextBox: default width, placeholder text, setupTextBoxEvents
FinalizeTextBox(objs, cs) ==
    IF cs.type = "textbox" /\ OnCanvas(objs, cs.ref)
    THEN [objs EXCEPT ![cs.ref].width = IF @ < MinTextWidth THEN DefaultTextWidth ELSE @,
                      ![cs.ref].text = PlaceholderText,
                      ![cs.ref].isPlaceholder = TRUE,
                      ![cs.ref].events = @ \cup {"textBox"}]
    ELSE objs

\* finalizeBubble: minimum body size
FinalizeBubbleSize(objs, cs) ==
    IF OnCanvas(objs, cs.ref)
    THEN [objs EXCEPT ![cs.ref].width = IF @ < MinBubbleWidth THEN DefaultBubbleWidth ELSE @,
                      ![cs.ref].height = IF @ < MinBubbleHeight THEN DefaultBubbleHeight ELSE @]
    ELSE objs

\* finalizeShapeWithText: minimum size (rx / ry of an ellipse, width / height
\* of anything else)
FinalizeShapeSize(objs, cs) ==
    IF OnCanvas(objs, cs.ref)
       /\ (objs[cs.ref].type = "ellipse" \/ HasWidthProp(objs[cs.ref]))
    THEN [objs EXCEPT ![cs.ref].width = IF @ < MinShapeWidth THEN DefaultShapeWidth ELSE @,
                      ![cs.ref].height = IF @ < MinShapeHeight THEN DefaultShapeHeight ELSE @]
    ELSE objs

\* onMouseUp: finalizeTextBox / finalizeBubble / finalizeShapeWithText
Finalize(objs, tool, cs, sp) ==
    IF tool = "text" THEN FinalizeTextBox(objs, cs)
    ELSE IF tool = "bubble"
         THEN IF cs.shapeType = "bubble"
              THEN CreateBoundTextForBubble(FinalizeBubbleSize(objs, cs), cs, sp)
              ELSE objs
    ELSE IF tool \in BoundShapeTools
         THEN CreateBoundTextForShape(FinalizeShapeSize(objs, cs), cs, sp)
    ELSE objs

\* 'moving' / 'modified' handlers of a bound shape: the text follows
SyncBoundText(objs, i) ==
    LET t == objs[i].boundText
    IN IF ~OnCanvas(objs, t) THEN objs
       ELSE LET p == IF objs[t].boundBubble = i THEN TextPositionForBubble(objs[i])
                     ELSE TextPositionForShape(objs[i])
            IN [objs EXCEPT ![t] = PlaceText(@, objs[i], p)]

\* objects the pointer can pick: selectable and evented
Selectable(i) ==
    /\ OnCanvas(canvas, i)
    /\ canvas[i].evented

Movable(i) == Selectable(i) /\ ~IsClaimed(canvas[i])

\* deleteSelected: forEachObject(obj => canvas.remove(obj))
RECURSIVE RemoveAll(_, _, _)
RemoveAll(objs, R, S) ==
    IF S = {} THEN R
    ELSE LET i == CHOOSE m \in S : \A k \in S : m <= k
         IN RemoveAll(objs, CanvasRemove(objs, R, i), S \ {i})

AllIndices == 1..Len(canvas)

histVars == <<undoStack, redoStack, isRestoring, isSaving, debounceTimer, timers>>
toolVars == <<currentTool, isDrawingShape, currentShape, startPoint>>

\* ---------------------------------------------------------------- actions
\* FabricEditor.init: empty canvas, initial state committed immediately
EditorInit ==
    /\ canvas = <<>>
    /\ undoStack = <<Serialize(<<>>)>>
    /\ redoStack = <<>>
    /\ isRestoring = FALSE
    /\ isSaving = FALSE
    /\ debounceTimer = "null"
    /\ timers = 0
    /\ loading = NoLoad
    /\ currentTool = "select"
    /\ isDrawingShape = FALSE
    /\ currentShape = NoShape
    /\ startPoint = NoPoint
    /\ crop = NoCrop

\* the tool names setTool has a case for, and a name it has none for
AcceptedTools == {"select", "hand", "pencil", "eraser", "rect", "circle",
                  "triangle", "line", "arrow", "text", "bubble", "image", "crop"}
UnknownTool == "lasso"

\* setTool (toolbar button or keyboard shortcut); 'image', and 'crop' with no
\* image selected, end in setTool('select'); 'select' makes every object
\* selectable, 'hand' makes none
SetTool(t) ==
    /\ currentTool' = IF t \in {"image", "crop"} THEN "select" ELSE t
    /\ canvas' = IF t \in {"select", "image", "crop"} THEN SetEvented(canvas, TRUE)
                 ELSE IF t = "hand" THEN SetEvented(canvas, FALSE)
                 ELSE canvas
    /\ UNCHANGED <<histVars, loading, isDrawingShape, currentShape, startPoint, crop>>

\* onMouseDown on empty canvas with a construction tool
MouseDown(p) ==
    /\ ~isDrawingShape
    /\ currentTool \in ClickSelectTools
    /\ Len(canvas) + 2 <= MaxObjects
    /\ LET shape == CreatedShape(currentTool, p)
       IN /\ canvas' = Append(canvas, shape)
          /\ currentShape' = [ref |-> Len(canvas) + 1, type |-> shape.type,
                              shapeType |-> shape.shapeType]
    /\ isDrawingShape' = TRUE
    /\ startPoint' = p
    /\ UNCHANGED <<histVars, loading, currentTool, crop>>

\* onMouseUp with a construction in progress
MouseUp ==
    /\ isDrawingShape
    /\ currentShape.ref # 0
    /\ Len(Finalize(canvas, currentTool, currentShape, startPoint)) <= MaxObjects
    /\ canvas' = Finalize(canvas, currentTool, currentShape, startPoint)
    /\ SetHistory(SaveState(History))
    /\ isDrawingShape' = FALSE
    /\ currentShape' = NoShape
    /\ startPoint' = NoPoint
    /\ UNCHANGED <<loading, currentTool, crop>>

\* onMouseDown on object i: an evented object is the target of the event and
\* is selected; an object that is not evented is no target, and the handler
\* runs as on empty canvas
MouseDownOn(i) ==
    /\ OnCanvas(canvas, i)
    /\ IF canvas[i].evented \/ currentTool \notin ClickSelectTools
       THEN ~isDrawingShape /\ UNCHANGED coreVars
       ELSE MouseDown(<<canvas[i].x, canvas[i].y>>)

Abs(v) == IF v < 0 THEN -v ELSE v
Min(a, b) == IF a < b THEN a ELSE b
Max(a, b) == IF a < b THEN b ELSE a

\* updateShape / updateBubbleSize: the corner and size attributes the active
\* tool sets, the pointer at (w, h) from the drag origin
UpdateShape(objs, tool, cs, w, h) ==
    IF ~OnCanvas(objs, cs.ref) THEN objs
    ELSE LET o == objs[cs.ref]
         IN CASE tool \in {"rect", "triangle"} /\ HasWidthProp(o) ->
                    [objs EXCEPT ![cs.ref].left = IF w < 0 THEN w ELSE @,
                                 ![cs.ref].width = Abs(w),
                                 ![cs.ref].top = IF h < 0 THEN h ELSE @,
                                 ![cs.ref].height = Abs(h)]
              [] tool = "circle" /\ o.type = "ellipse" ->
                    [objs EXCEPT ![cs.ref].left = Min(0, w),
                                 ![cs.ref].top = Min(0, h),
                                 ![cs.ref].width = Abs(w),
                                 ![cs.ref].height = Abs(h)]
              [] tool = "text" /\ HasWidthProp(o) ->
                    [objs EXCEPT ![cs.ref].left = Min(0, w),
                                 ![cs.ref].top = Min(0, h),
                                 ![cs.ref].width = Max(Abs(w), DragMinTextWidth)]
              [] tool = "bubble" /\ o.shapeType = "bubble" ->
                    [objs EXCEPT ![cs.ref].left = Min(0, w),
                                 ![cs.ref].top = Min(0, h),
                                 ![cs.ref].width = Max(Abs(w), DragMinBubbleWidth),
                                 ![cs.ref].height = Max(Abs(h), DragMinBubbleHeight)]
              [] OTHER -> objs

\* onMouseMove with a construction in progress, the pointer at offset (w, h)
\* from the drag origin; the arrow tool replaces the shape by a new arrow
MouseMove(w, h) ==
    /\ isDrawingShape
    /\ currentShape.ref # 0
    /\ IF currentTool = "arrow"
       THEN LET R == {currentShape.ref} \cap AllIndices
                objs == Append(Without(canvas, R),
                               NewObject("group", "none", startPoint, "arrow", 0))
            IN /\ Len(objs) <= MaxObjects
               /\ canvas' = objs
               /\ currentShape' = [ref |-> Len(objs), type |-> "group",
                                   shapeType |-> "none"]
               /\ crop' = RemapCrop(R, crop)
       ELSE /\ canvas' = UpdateShape(canvas, currentTool, currentShape, w, h)
            /\ UNCHANGED <<currentShape, crop>>
    /\ UNCHANGED <<histVars, loading, currentTool, isDrawingShape, startPoint>>

\* scale / rotate interaction on object i: 'scaling' / 'rotating' / 'modified'
\* handlers, then object:modified -> saveState
TransformObject(i, sx, sy, a) ==
    /\ ~isDrawingShape
    /\ Movable(i)
    /\ <<sx, sy, a>> # <<canvas[i].scaleX, canvas[i].scaleY, canvas[i].angle>>
    /\ canvas' = SyncBoundText([canvas EXCEPT ![i].scaleX = sx, ![i].scaleY = sy,
                                              ![i].angle = a], i)
    /\ SetHistory(SaveState(History))
    /\ UNCHANGED <<loading, toolVars, crop>>

\* applyPropertyChange on the active object i: prop-x / prop-y / prop-angle
ApplyPropertyChange(i, property, value) ==
    /\ ~isDrawingShape
    /\ Selectable(i)
    /\ canvas' = CASE property = "prop-x" -> [canvas EXCEPT ![i].x = value]
                   [] property = "prop-y" -> [canvas EXCEPT ![i].y = value]
                   [] property = "prop-angle" -> [canvas EXCEPT ![i].angle = value]
    /\ SetHistory(SaveState(History))
    /\ UNCHANGED <<loading, toolVars, crop>>

\* text handlers by the function that registered them: setupTextBoxEvents,
\* setupShapeTextEvents, setupBubbleTextEvents, setupRestoredTextBox
PlaceholderEvents == {"textBox", "bubbleText", "restored"}
CommitEvents == {"textBox", "shapeText", "bubbleText"}

Blank(str) == str \in {"", " "}

\* textbox.enterEditing() on object i: 'editing:entered' handlers
EnterEditing(i) ==
    /\ OnCanvas(canvas, i)
    /\ canvas[i].type = "textbox"
    /\ \A j \in AllIndices : ~canvas[j].isEditing
    /\ canvas' = IF canvas[i].isPlaceholder /\ canvas[i].events \cap PlaceholderEvents # {}
                 THEN [canvas EXCEPT ![i].isEditing = TRUE, ![i].text = "",
                                     ![i].isPlaceholder = FALSE]
                 ELSE [canvas EXCEPT ![i].isEditing = TRUE]
    /\ UNCHANGED <<histVars, loading, toolVars, crop>>

\* typing in the text under edit
TypeText(i, str) ==
    /\ OnCanvas(canvas, i)
    /\ canvas[i].isEditing
    /\ str # canvas[i].text
    /\ canvas' = [canvas EXCEPT ![i].text = str]
    /\ UNCHANGED <<histVars, loading, toolVars, crop>>

\* textbox.exitEditing() on object i: 'editing:exited' handlers
ExitEditing(i) ==
    /\ OnCanvas(canvas, i)
    /\ canvas[i].isEditing
    /\ canvas' = IF Blank(canvas[i].text) /\ canvas[i].events \cap PlaceholderEvents # {}
                 THEN [canvas EXCEPT ![i].isEditing = FALSE, ![i].text = PlaceholderText,
                                     ![i].isPlaceholder = TRUE]
                 ELSE [canvas EXCEPT ![i].isEditing = FALSE]
    /\ IF canvas[i].events \cap CommitEvents # {}
       THEN SetHistory(SaveState(History))
       ELSE UNCHANGED histVars
    /\ UNCHANGED <<loading, toolVars, crop>>

\* drag of an object to p: 'moving' handlers, then object:modified -> saveState
MoveObject(i, p) ==
    /\ ~isDrawingShape
    /\ Movable(i)
    /\ p # <<canvas[i].x, canvas[i].y>>
    /\ canvas' = SyncBoundText([canvas EXCEPT ![i].x = p[1], ![i].y = p[2]], i)
    /\ SetHistory(SaveState(History))
    /\ UNCHANGED <<loading, toolVars, crop>>

\* deleteSelected on the active object or the active multi-selection S
DeleteSelected(S) ==
    /\ ~isDrawingShape
    /\ S # {}
    /\ Cardinality(S) <= MaxSel
    /\ \A i \in S : Selectable(i)
    /\ LET R == RemoveAll(canvas, {}, S)
       IN /\ canvas' = Without(canvas, R)
          /\ currentShape' = RemapShape(R, currentShape)
          /\ crop' = RemapCrop(R, crop)
    /\ SetHistory(SaveState(History))
    /\ UNCHANGED <<loading, currentTool, isDrawingShape, startPoint>>

\* the debounce timeout fires: _doSaveState
TimerFire ==
    /\ timers > 0
    /\ SetHistory(DoSaveState([History EXCEPT
            !.timers = timers - 1,
            !.debounceTimer = IF debounceTimer = "live" THEN "stale" ELSE @],
          canvas))
    /\ UNCHANGED <<canvas, loading, toolVars, crop>>

\* seeded fault: undo() restores the snapshot it has just popped
UndoToLastCommit ==
    IF Len(undoStack) <= 1 \/ isRestoring
    THEN UNCHANGED coreVars
    ELSE /\ timers' = ClearTimeout(History)
         /\ debounceTimer' = "null"
         /\ undoStack' = SubSeq(undoStack, 1, Len(undoStack) - 1)
         /\ redoStack' = Append(redoStack, undoStack[Len(undoStack)])
         /\ isRestoring' = TRUE
         /\ loading' = [active |-> TRUE, state |-> undoStack[Len(undoStack)]]
         /\ UNCHANGED <<canvas, isSaving, toolVars, crop>>

\* seeded fault: undo() does not look at isRestoring
UndoWhileRestoring ==
    IF Len(undoStack) <= 1
    THEN UNCHANGED coreVars
    ELSE /\ timers' = ClearTimeout(History)
         /\ debounceTimer' = "null"
         /\ undoStack' = SubSeq(undoStack, 1, Len(undoStack) - 1)
         /\ redoStack' = Append(redoStack, undoStack[Len(undoStack)])
         /\ isRestoring' = TRUE
         /\ loading' = [active |-> TRUE, state |-> undoStack[Len(undoStack) - 1]]
         /\ UNCHANGED <<canvas, isSaving, toolVars, crop>>

\* undo
Undo ==
    IF Len(undoStack) <= 1 \/ isRestoring
    THEN UNCHANGED coreVars
    ELSE /\ timers' = ClearTimeout(History)
         /\ debounceTimer' = "null"
         /\ undoStack' = SubSeq(undoStack, 1, Len(undoStack) - 1)
         /\ redoStack' = Append(redoStack, undoStack[Len(undoStack)])
         /\ isRestoring' = TRUE
         /\ loading' = [active |-> TRUE, state |-> undoStack[Len(undoStack) - 1]]
         /\ UNCHANGED <<canvas, isSaving, toolVars, crop>>

\* seeded fault: redo() leaves the entry on redoStack
RedoKeepsEntry ==
    IF Len(redoStack) = 0 \/ isRestoring
    THEN UNCHANGED coreVars
    ELSE /\ timers' = ClearTimeout(History)
         /\ debounceTimer' = "null"
         /\ undoStack' = Append(undoStack, redoStack[Len(redoStack)])
         /\ isRestoring' = TRUE
         /\ loading' = [active |-> TRUE, state |-> redoStack[Len(redoStack)]]
         /\ UNCHANGED <<canvas, redoStack, isSaving, toolVars, crop>>

\* redo
Redo ==
    IF Len(redoStack) = 0 \/ isRestoring
    THEN UNCHANGED coreVars
    ELSE /\ timers' = ClearTimeout(History)
         /\ debounceTimer' = "null"
         /\ redoStack' = SubSeq(redoStack, 1, Len(redoStack) - 1)
         /\ undoStack' = Append(undoStack, redoStack[Len(redoStack)])
         /\ isRestoring' = TRUE
         /\ loading' = [active |-> TRUE, state |-> redoStack[Len(redoStack)]]
         /\ UNCHANGED <<canvas, isSaving, toolVars, crop>>

\* restoreState: loadFromJSON resolved
RestoreResolved ==
    /\ loading.active
    /\ canvas' = Restored(loading.state)
    /\ isRestoring' = FALSE
    /\ loading' = NoLoad
    /\ currentShape' = RemapShape(AllIndices, currentShape)
    /\ crop' = RemapCrop(AllIndices, crop)
    /\ UNCHANGED <<undoStack, redoStack, isSaving, debounceTimer, timers,
                   currentTool, isDrawingShape, startPoint>>

\* seeded fault: the rejection handler leaves isRestoring set
RejectedKeepsFlag ==
    /\ loading.active
    /\ loading' = NoLoad
    /\ UNCHANGED <<canvas, histVars, toolVars, crop>>

\* restoreState: loadFromJSON rejected
RestoreRejected ==
    /\ loading.active
    /\ isRestoring' = FALSE
    /\ loading' = NoLoad
    /\ UNCHANGED <<canvas, undoStack, redoStack, isSaving, debounceTimer, timers,
                   toolVars, crop>>

\* handleJSONImport: loadFromJSON resolved, then history.clear()
ImportLoaded(doc) ==
    /\ canvas' = SetEvented(LoadFromJSON(doc), TRUE)
    /\ SetHistory(Clear(History, SetEvented(LoadFromJSON(doc), TRUE)))
    /\ currentShape' = RemapShape(AllIndices, currentShape)
    /\ crop' = RemapCrop(AllIndices, crop)
    /\ UNCHANGED <<loading, currentTool, isDrawingShape, startPoint>>

\* handleImageFile: image loaded and added at the canvas centre
AddImage ==
    /\ Cardinality({i \in AllIndices : canvas[i].type = "image"}) < MaxImages
    /\ canvas' = Append(canvas, NewObject("image", "none", CanvasCenter, "", 0))
    /\ SetHistory(SaveState(History))
    /\ UNCHANGED <<loading, toolVars, crop>>

\* setTool('crop') with image i active: enableCropMode
EnableCropMode(i) ==
    /\ ~isDrawingShape
    /\ ~crop.isCropping
    /\ Selectable(i)
    /\ canvas[i].type = "image"
    /\ Len(canvas) + 2 <= MaxCropObjects
    /\ LET c == <<canvas[i].x, canvas[i].y>>
       IN canvas' = [canvas EXCEPT ![i].evented = FALSE]
                      \o <<[NewObject("rect", "none", c, "cropOverlay", 0)
                               EXCEPT !.evented = FALSE],
                           NewObject("rect", "none", c, "cropRect", 0)>>
    /\ crop' = [isCropping |-> TRUE, targetImage |-> i,
                overlay |-> Len(canvas) + 1, cropRect |-> Len(canvas) + 2]
    /\ currentTool' = "crop"
    /\ UNCHANGED <<histVars, loading, isDrawingShape, currentShape, startPoint>>

\* applyCrop: cropped image created; scaffolding and original leave the
\* canvas; saveStateImmediate, then setTool('select')
ApplyCrop(p) ==
    /\ crop.isCropping
    /\ OnCanvas(canvas, crop.cropRect) => p = <<canvas[crop.cropRect].x, canvas[crop.cropRect].y>>
    /\ LET R == RemoveAll(canvas, {}, {crop.overlay, crop.targetImage, crop.cropRect})
           objs == Append(Without(canvas, R), NewObject("image", "none", p, "", 1))
       IN /\ Len(objs) <= MaxCropObjects
          /\ canvas' = SetEvented(objs, TRUE)
          /\ SetHistory(SaveStateImmediate(History, objs))
          /\ currentShape' = RemapShape(R, currentShape)
    /\ crop' = NoCrop
    /\ currentTool' = "select"
    /\ UNCHANGED <<loading, isDrawingShape, startPoint>>

\* cancelCrop
CancelCrop ==
    /\ crop.isCropping
    /\ LET R == RemoveAll(canvas, {}, {crop.overlay, crop.cropRect})
           objs == IF OnCanvas(canvas, crop.targetImage)
                   THEN [canvas EXCEPT ![crop.targetImage].evented = TRUE]
                   ELSE canvas
       IN /\ canvas' = Without(objs, R)
          /\ currentShape' = RemapShape(R, currentShape)
    /\ crop' = NoCrop
    /\ currentTool' = "select"
    /\ UNCHANGED <<histVars, loading, isDrawingShape, startPoint>>

\* ------------------------------------------------- history variables
ghostVars == <<floor, rt, ur, burst, op, scene>>
vars == <<coreVars, ghostVars>>

Top(stack) == stack[Len(stack)]

\* a commit of snap onto stack is not discarded as a duplicate
Changed(stack, snap) == stack = <<>> \/ Top(stack) # snap

NoFloor == [set |-> FALSE, snap |-> <<>>]
FloorOf(stack) == IF stack = <<>> THEN NoFloor ELSE [set |-> TRUE, snap |-> stack[1]]

RtOff == [phase |-> "off", s0 |-> <<>>, n |-> 0, m |-> 0]
RtStart(stack) ==
    IF Len(stack) = 1 THEN [phase |-> "commits", s0 |-> stack[1], n |-> 0, m |-> 0]
    ELSE RtOff

UrNone == [phase |-> "none", u |-> <<>>, r |-> <<>>, c |-> <<>>]

NoBurst == [phase |-> "none", calls |-> 0, base |-> <<>>, accepted |-> FALSE,
            snap |-> <<>>]

NoScene == [orig |-> <<>>, restored |-> FALSE]

Init ==
    /\ EditorInit
    /\ floor = FloorOf(undoStack)
    /\ rt = RtStart(undoStack)
    /\ ur = UrNone
    /\ burst = NoBurst
    /\ op = "init"
    /\ scene = NoScene

\* floor: set by init and by clear()
TrackFloor(e) ==
    /\ floor' = IF e = "import" THEN FloorOf(undoStack') ELSE floor
    /\ UNCHANGED <<rt, ur, burst, op, scene>>

\* rt: N pushed commits on top of the floor snapshot s0, then undo() calls,
\* each issued with no restore in flight; anything else ends the run
RtNext(e) ==
    CASE e = "import" -> RtStart(undoStack')
      [] e = "edit" -> IF rt.phase = "commits" THEN rt ELSE RtOff
      [] e = "fire" ->
            IF rt.phase = "commits"
            THEN IF undoStack' = undoStack THEN rt
                 ELSE IF rt.n < MaxStates THEN [rt EXCEPT !.n = @ + 1] ELSE RtOff
            ELSE RtOff
      [] e = "undo" ->
            IF /\ rt.phase = "commits" /\ rt.n >= 1 /\ timers = 0 /\ ~isRestoring
               /\ Serialize(canvas) = Top(undoStack)
            THEN [rt EXCEPT !.phase = "undos", !.m = 1]
            ELSE IF rt.phase = "undos" /\ ~isRestoring /\ rt.m < rt.n
                 THEN [rt EXCEPT !.m = @ + 1]
                 ELSE RtOff
      [] e = "resolved" -> rt
      [] OTHER -> RtOff

TrackRoundTrip(e) ==
    /\ rt' = RtNext(e)
    /\ UNCHANGED <<floor, ur, burst, op, scene>>

\* ur: undo() called with no restore in flight, then redo() as the next call
UrNext(e) ==
    CASE e = "undo" ->
            IF isRestoring THEN UrNone
            ELSE [phase |-> "undone", u |-> undoStack, r |-> redoStack,
                  c |-> Serialize(canvas)]
      [] e = "redo" -> IF ur.phase = "undone" THEN [ur EXCEPT !.phase = "redone"]
                       ELSE UrNone
      [] e = "resolved" -> ur
      [] OTHER -> UrNone

TrackUndoRedo(e) ==
    /\ ur' = UrNext(e)
    /\ UNCHANGED <<floor, rt, burst, op, scene>>

\* burst: saveState calls following each other before the timeout fires, with
\* no other history operation in between; accepted: none was made while
\* restoring or saving
BurstNext(e) ==
    CASE e = "edit" ->
            IF burst.phase = "pending"
            THEN [burst EXCEPT !.calls = IF @ < MaxBurst THEN @ + 1 ELSE @,
                               !.accepted = @ /\ ~isRestoring /\ ~isSaving]
            ELSE [phase |-> "pending", calls |-> 1, base |-> undoStack,
                  accepted |-> ~isRestoring /\ ~isSaving, snap |-> <<>>]
      [] e = "fire" ->
            IF burst.phase = "pending"
            THEN [burst EXCEPT !.phase = "fired", !.snap = Serialize(canvas)]
            ELSE NoBurst
      [] OTHER -> NoBurst

TrackBurst(e) ==
    /\ burst' = BurstNext(e)
    /\ UNCHANGED <<floor, rt, ur, op, scene>>

TrackOp(e) ==
    /\ op' = e
    /\ UNCHANGED <<floor, rt, ur, burst, scene>>

\* --------------------------------------------------------- specifications
\* History scenario: images are added, dragged and deleted, projects are
\* imported; every history operation is free to interleave.
HistoryDocs == {<<>>, Serialize(<<NewObject("image", "none", <<0, MaxY>>, "", 0)>>)}

Next ==
    \/ AddImage /\ TrackFloor("edit")
    \/ \E i \in AllIndices, p \in Points : MoveObject(i, p) /\ TrackFloor("edit")
    \/ \E S \in SUBSET AllIndices : DeleteSelected(S) /\ TrackFloor("edit")
    \/ TimerFire /\ TrackFloor("fire")
    \/ Undo /\ TrackFloor("undo")
    \/ Redo /\ TrackFloor("redo")
    \/ RestoreResolved /\ TrackFloor("resolved")
    \/ RestoreRejected /\ TrackFloor("rejected")
    \/ \E doc \in HistoryDocs : ImportLoaded(doc) /\ TrackFloor("import")

Spec == Init /\ [][Next]_vars

\* the history scenario, following commit / undo round trips
NextRoundTrip ==
    \/ AddImage /\ TrackRoundTrip("edit")
    \/ \E i \in AllIndices, p \in Points : MoveObject(i, p) /\ TrackRoundTrip("edit")
    \/ \E S \in SUBSET AllIndices : DeleteSelected(S) /\ TrackRoundTrip("edit")
    \/ TimerFire /\ TrackRoundTrip("fire")
    \/ Undo /\ TrackRoundTrip("undo")
    \/ Redo /\ TrackRoundTrip("redo")
    \/ RestoreResolved /\ TrackRoundTrip("resolved")
    \/ RestoreRejected /\ TrackRoundTrip("rejected")
    \/ \E doc \in HistoryDocs : ImportLoaded(doc) /\ TrackRoundTrip("import")

SpecRoundTrip == Init /\ [][NextRoundTrip]_vars

\* the history scenario, following undo() .. redo() pairs
NextUndoRedo ==
    \/ AddImage /\ TrackUndoRedo("edit")
    \/ \E i \in AllIndices, p \in Points : MoveObject(i, p) /\ TrackUndoRedo("edit")
    \/ \E S \in SUBSET AllIndices : DeleteSelected(S) /\ TrackUndoRedo("edit")
    \/ TimerFire /\ TrackUndoRedo("fire")
    \/ Undo /\ TrackUndoRedo("undo")
    \/ Redo /\ TrackUndoRedo("redo")
    \/ RestoreResolved /\ TrackUndoRedo("resolved")
    \/ RestoreRejected /\ TrackUndoRedo("rejected")
    \/ \E doc \in HistoryDocs : ImportLoaded(doc) /\ TrackUndoRedo("import")

SpecUndoRedo == Init /\ [][NextUndoRedo]_vars

\* the history scenario, following bursts of saveState calls
NextBurst ==
    \/ AddImage /\ TrackBurst("edit")
    \/ \E i \in AllIndices, p \in Points : MoveObject(i, p) /\ TrackBurst("edit")
    \/ \E S \in SUBSET AllIndices : DeleteSelected(S) /\ TrackBurst("edit")
    \/ TimerFire /\ TrackBurst("fire")
    \/ Undo /\ TrackBurst("undo")
    \/ Redo /\ TrackBurst("redo")
    \/ RestoreResolved /\ TrackBurst("resolved")
    \/ RestoreRejected /\ TrackBurst("rejected")
    \/ \E doc \in HistoryDocs : ImportLoaded(doc) /\ TrackBurst("import")

SpecBurst == Init /\ [][NextBurst]_vars

\* ur: undo() or redo() that issues a restore, followed by the rejection of
\* that restore; u, r, c are the stacks and the canvas before the call
FailNext(e) ==
    CASE e \in {"undo", "redo"} ->
            IF isRestoring THEN ur
            ELSE IF isRestoring'
                 THEN [phase |-> "issued", u |-> undoStack, r |-> redoStack,
                       c |-> Serialize(canvas)]
                 ELSE UrNone
      [] e \in {"edit", "fire"} -> IF ur.phase = "issued" THEN ur ELSE UrNone
      [] e = "rejected" -> IF ur.phase = "issued" THEN [ur EXCEPT !.phase = "failed"]
                           ELSE UrNone
      [] OTHER -> UrNone

TrackFailedRestore(e) ==
    /\ ur' = FailNext(e)
    /\ UNCHANGED <<floor, rt, burst, op, scene>>

\* the history scenario, following restores that fail
NextFailedRestore ==
    \/ AddImage /\ TrackFailedRestore("edit")
    \/ \E i \in AllIndices, p \in Points : MoveObject(i, p) /\ TrackFailedRestore("edit")
    \/ \E S \in SUBSET AllIndices : DeleteSelected(S) /\ TrackFailedRestore("edit")
    \/ TimerFire /\ TrackFailedRestore("fire")
    \/ Undo /\ TrackFailedRestore("undo")
    \/ Redo /\ TrackFailedRestore("redo")
    \/ RestoreResolved /\ TrackFailedRestore("resolved")
    \/ RestoreRejected /\ TrackFailedRestore("rejected")
    \/ \E doc \in HistoryDocs : ImportLoaded(doc) /\ TrackFailedRestore("import")

SpecFailedRestore == Init /\ [][NextFailedRestore]_vars

\* the history scenario, following the pending timeout across undo() / redo();
\* "cancel": the call took effect with a timeout pending
Issued(e) ==
    IF ~isRestoring /\ isRestoring' /\ timers > 0 THEN "cancel" ELSE e

NextCancel ==
    \/ AddImage /\ TrackOp("edit")
    \/ \E i \in AllIndices, p \in Points : MoveObject(i, p) /\ TrackOp("edit")
    \/ \E S \in SUBSET AllIndices : DeleteSelected(S) /\ TrackOp("edit")
    \/ TimerFire /\ TrackOp("fire")
    \/ Undo /\ TrackOp(Issued("undo"))
    \/ Redo /\ TrackOp(Issued("redo"))
    \/ RestoreResolved /\ TrackOp("resolved")
    \/ RestoreRejected /\ TrackOp("rejected")
    \/ \E doc \in HistoryDocs : ImportLoaded(doc) /\ TrackOp("import")

SpecCancel == Init /\ [][NextCancel]_vars

\* the same scenario, every loadFromJSON promise being settled: once a
\* restore is issued its promise resolves or rejects
Settle ==
    \/ RestoreResolved /\ TrackOp("resolved")
    \/ RestoreRejected /\ TrackOp("rejected")

SpecSettled == Init /\ [][NextCancel]_vars /\ WF_vars(Settle)

\* Crop scenario: an image is added and cropped, with debounced commits,
\* undo and redo interleaving with the crop mode.
NextCrop ==
    \/ AddImage /\ TrackOp("addImage")
    \/ \E i \in AllIndices : EnableCropMode(i) /\ TrackOp("enableCropMode")
    \/ \E p \in Points : ApplyCrop(p) /\ TrackOp("applyCrop")
    \/ CancelCrop /\ TrackOp("cancelCrop")
    \/ TimerFire /\ TrackOp("fire")
    \/ Undo /\ TrackOp("undo")
    \/ Redo /\ TrackOp("redo")
    \/ RestoreResolved /\ TrackOp("resolved")

SpecCrop == Init /\ [][NextCrop]_vars

\* Scene scenario: shapes and bubbles with their bound texts are drawn at the
\* canvas centre and deleted, with undo/redo restoring and relinking them.
\* A drawing gesture (pointer-down to pointer-up) runs to completion before
\* the next event is handled.
SceneTools == {"rect", "bubble"}

NextScene ==
    \/ \E t \in SceneTools : ~isDrawingShape /\ SetTool(t) /\ UNCHANGED ghostVars
    \/ MouseDown(CanvasCenter) /\ UNCHANGED ghostVars
    \/ MouseUp /\ UNCHANGED ghostVars
    \/ \E S \in SUBSET AllIndices : DeleteSelected(S) /\ UNCHANGED ghostVars
    \/ ~isDrawingShape /\ TimerFire /\ UNCHANGED ghostVars
    \/ ~isDrawingShape /\ Undo /\ UNCHANGED ghostVars
    \/ ~isDrawingShape /\ Redo /\ UNCHANGED ghostVars
    \/ ~isDrawingShape /\ RestoreResolved /\ UNCHANGED ghostVars

SpecScene == Init /\ [][NextScene]_vars

\* Relink scenario: a scene of two containers with their bound texts, in any
\* stacking order, is serialized and restored into a fresh collection.
ScenePoints == {<<x, y>> : x \in 0..MaxX, y \in 0..MaxY}
ContainerTools == BoundShapeTools \cup {"bubble"}

\* onMouseDown .. onMouseUp with the given tool at p
Drawn(objs, tool, p) ==
    LET shape == CreatedShape(tool, p)
        cs == [ref |-> Len(objs) + 1, type |-> shape.type,
               shapeType |-> shape.shapeType]
    IN Finalize(Append(objs, shape), tool, cs, p)

\* bring forward / send backward: object i moves to position f[i]
Reordered(objs, f) ==
    LET ref(r) == IF r > 0 THEN f[r] ELSE r
    IN [k \in 1..Len(objs) |->
          LET i == CHOOSE j \in 1..Len(objs) : f[j] = k
          IN [objs[i] EXCEPT !.boundText = ref(@), !.boundShape = ref(@),
                             !.boundBubble = ref(@)]]

TwoPairScenes ==
    {Reordered(Drawn(Drawn(<<>>, k1, p1), k2, p2), f) :
        k1 \in ContainerTools, k2 \in ContainerTools,
        p1 \in ScenePoints, p2 \in ScenePoints, f \in Permutations(1..4)}

InitRelink ==
    /\ canvas \in TwoPairScenes
    /\ undoStack = <<Serialize(canvas)>>
    /\ redoStack = <<>>
    /\ isRestoring = FALSE
    /\ isSaving = FALSE
    /\ debounceTimer = "null"
    /\ timers = 0
    /\ loading = NoLoad
    /\ currentTool = "select"
    /\ isDrawingShape = FALSE
    /\ currentShape = NoShape
    /\ startPoint = NoPoint
    /\ crop = NoCrop
    /\ floor = FloorOf(undoStack)
    /\ rt = RtOff
    /\ ur = UrNone
    /\ burst = NoBurst
    /\ op = "init"
    /\ scene = [orig |-> canvas, restored |-> FALSE]

\* toJSON, loadFromJSON into a fresh collection, restoreBubbleTextBindings
SnapshotRestore ==
    /\ ~scene.restored
    /\ canvas' = Restored(Serialize(canvas))
    /\ scene' = [scene EXCEPT !.restored = TRUE]
    /\ UNCHANGED <<histVars, loading, toolVars, crop, floor, rt, ur, burst, op>>

NextRelink == SnapshotRestore

SpecRelink == InitRelink /\ [][NextRelink]_vars

\* Transform scenario: one container with its bound text, drawn and
\* committed, is dragged, scaled and rotated with the pointer and edited in
\* the property panel, before the debounce delay of the first change elapses.
Scales == 1..MaxScale
Angles == {0, 90}
PanelProperties == {"prop-x", "prop-y", "prop-angle"}

PanelValues(property) ==
    CASE property = "prop-x" -> {0}
      [] property = "prop-y" -> 0..MaxY
      [] property = "prop-angle" -> Angles

OnePairScenes == {Drawn(<<>>, k, p) : k \in ContainerTools, p \in Points}

InitTransform ==
    /\ canvas \in OnePairScenes
    /\ undoStack = <<Serialize(<<>>), Serialize(canvas)>>
    /\ redoStack = <<>>
    /\ isRestoring = FALSE
    /\ isSaving = FALSE
    /\ debounceTimer = "stale"
    /\ timers = 0
    /\ loading = NoLoad
    /\ currentTool = "select"
    /\ isDrawingShape = FALSE
    /\ currentShape = NoShape
    /\ startPoint = NoPoint
    /\ crop = NoCrop
    /\ floor = FloorOf(undoStack)
    /\ rt = RtOff
    /\ ur = UrNone
    /\ burst = NoBurst
    /\ op = "init"
    /\ scene = NoScene

NextTransform ==
    \/ \E i \in AllIndices, p \in Points : MoveObject(i, p) /\ TrackOp("move")
    \/ \E i \in AllIndices, sx \in Scales, sy \in Scales, a \in Angles :
          TransformObject(i, sx, sy, a) /\ TrackOp("transform")
    \/ \E i \in AllIndices, property \in PanelProperties :
          \E value \in PanelValues(property) :
             ApplyPropertyChange(i, property, value) /\ TrackOp("property")

SpecTransform == InitTransform /\ [][NextTransform]_vars

\* Draw / undo / redo scenario: on the empty committed document a box is
\* drag-created with a shape tool, the commit fires, undo() and then redo() are
\* called, each restore completing before the next call.
DragWidths == {0, 60, 120}
DragHeights == {0, 40}

TrackScript(phase, sc) ==
    /\ op' = phase
    /\ scene' = sc
    /\ UNCHANGED <<floor, rt, ur, burst>>

NextDrawUndoRedo ==
    \/ \E t \in BoundShapeTools :
          op = "init" /\ SetTool(t) /\ TrackScript("tool", scene)
    \/ \E p \in ScenePoints :
          op = "tool" /\ MouseDown(p) /\ TrackScript("down", scene)
    \/ \E w \in DragWidths, h \in DragHeights :
          op = "down" /\ MouseMove(w, h) /\ TrackScript("down", scene)
    \/ op = "down" /\ MouseUp
          /\ TrackScript("up", [orig |-> canvas', restored |-> FALSE])
    \/ op = "up" /\ TimerFire /\ TrackScript("committed", scene)
    \/ op = "committed" /\ Undo /\ TrackScript("undo", scene)
    \/ op = "undo" /\ RestoreResolved /\ TrackScript("undone", scene)
    \/ op = "undone" /\ Redo /\ TrackScript("redo", scene)
    \/ op = "redo" /\ RestoreResolved
          /\ TrackScript("redone", [scene EXCEPT !.restored = TRUE])

SpecDrawUndoRedo == Init /\ [][NextDrawUndoRedo]_vars

\* Drag scenario: tools are chosen from the toolbar or by keyboard shortcut at
\* any moment, a drag in progress included; one shape is dragged out on the
\* empty canvas and finalized at pointer-up.
ToolNames == AcceptedTools \cup {UnknownTool}

NextDrag ==
    \/ \E t \in ToolNames : SetTool(t) /\ TrackOp("setTool")
    \/ \E p \in Points : canvas = <<>> /\ MouseDown(p) /\ TrackOp("down")
    \/ \E w \in DragWidths, h \in DragHeights : MouseMove(w, h) /\ TrackOp("move")
    \/ MouseUp /\ TrackOp("up")
    \/ TimerFire /\ TrackOp("fire")

SpecDrag == Init /\ [][NextDrag]_vars

\* Edit scenario: one free text box, rect or bubble is drawn on the empty
\* canvas; its text is edited; commits, undo, redo and restores interleave
\* with the edits, none of them issued while a text is under edit.
EditTools == {"text", "rect", "bubble"}
EditTexts == {"", " ", "abc"}
Editing == \E j \in AllIndices : canvas[j].isEditing

NextEdit ==
    \/ \E t \in EditTools : op = "init" /\ SetTool(t) /\ TrackOp("setTool")
    \/ op = "setTool" /\ MouseDown(CanvasCenter) /\ TrackOp("down")
    \/ MouseUp /\ TrackOp("up")
    \/ \E i \in AllIndices : ~isDrawingShape /\ EnterEditing(i) /\ TrackOp("enter")
    \/ \E i \in AllIndices, str \in EditTexts : TypeText(i, str) /\ TrackOp("type")
    \/ \E i \in AllIndices : ExitEditing(i) /\ TrackOp("exit")
    \/ TimerFire /\ TrackOp("fire")
    \/ ~Editing /\ ~isDrawingShape /\ Undo /\ TrackOp("undo")
    \/ ~Editing /\ ~isDrawingShape /\ Redo /\ TrackOp("redo")
    \/ RestoreResolved /\ TrackOp("resolved")

SpecEdit == Init /\ [][NextEdit]_vars

\* Edit scenario with a tool shortcut: as the edit scenario, and the select
\* tool may be chosen by its keyboard shortcut while the pointer is down.
NextEditSwitch ==
    \/ NextEdit
    \/ isDrawingShape /\ SetTool("select") /\ TrackOp("switch")

SpecEditSwitch == Init /\ [][NextEditSwitch]_vars

\* Gesture scenario: rectangles and lines are drawn at the canvas centre;
\* debounce timers, undo, redo and the completion of a restore are free to
\* happen at any moment, between pointer-down and pointer-up included.
GestureTools == {"rect", "line"}

NextGesture ==
    \/ \E t \in GestureTools : ~isDrawingShape /\ SetTool(t) /\ TrackOp("setTool")
    \/ MouseDown(CanvasCenter) /\ TrackOp("down")
    \/ MouseUp /\ TrackOp("up")
    \/ TimerFire /\ TrackOp("fire")
    \/ Undo /\ TrackOp("undo")
    \/ Redo /\ TrackOp("redo")
    \/ RestoreResolved /\ TrackOp("resolved")

SpecGesture == Init /\ [][NextGesture]_vars

\* Hand scenario: rectangles are drawn at the canvas centre, the hand tool is
\* chosen between drawings; commits, undo, redo and restores interleave with
\* whole gestures.
HandTools == {"hand", "rect"}

NextHand ==
    \/ \E t \in HandTools : ~isDrawingShape /\ SetTool(t) /\ TrackOp("setTool")
    \/ MouseDown(CanvasCenter) /\ TrackOp("down")
    \/ MouseUp /\ TrackOp("up")
    \/ ~isDrawingShape /\ TimerFire /\ TrackOp("fire")
    \/ ~isDrawingShape /\ Undo /\ TrackOp("undo")
    \/ ~isDrawingShape /\ Redo /\ TrackOp("redo")
    \/ ~isDrawingShape /\ RestoreResolved /\ TrackOp("resolved")

SpecHand == Init /\ [][NextHand]_vars

\* Pointer scenario: one shape is dragged out with a shape tool, the pointer
\* moving to either side of the drag origin or not at all; scene.orig is the
\* last pointer offset.
PointerDX == {-60, 0, 60}
PointerDY == {-40, 0, 40}
PointerAt(w, h) == [orig |-> <<w, h>>, restored |-> FALSE]

NextPointer ==
    \/ \E t \in ShapeTools : op = "init" /\ SetTool(t) /\ TrackScript("tool", NoScene)
    \/ \E p \in ScenePoints :
          op = "tool" /\ MouseDown(p) /\ TrackScript("down", PointerAt(0, 0))
    \/ \E w \in PointerDX, h \in PointerDY :
          MouseMove(w, h) /\ TrackScript("move", PointerAt(w, h))
    \/ MouseUp /\ TrackScript("up", scene)
    \/ TimerFire /\ TrackScript("committed", scene)

SpecPointer == Init /\ [][NextPointer]_vars

\* Click scenario: tools are changed between constructions; the pointer goes
\* down on empty canvas or on an object already there.
ClickTools == {"select", "hand", "rect", "text"}

NextClick ==
    \/ \E t \in ClickTools : ~isDrawingShape /\ SetTool(t) /\ TrackOp("setTool")
    \/ canvas = <<>> /\ MouseDown(CanvasCenter) /\ TrackOp("down")
    \/ \E i \in AllIndices : MouseDownOn(i) /\ TrackOp("downOn")
    \/ MouseUp /\ TrackOp("up")
    \/ TimerFire /\ TrackOp("fire")

SpecClick == Init /\ [][NextClick]_vars

\* -------------------------------------------------------------- properties
\* C1: N commits pushed on top of the initial snapshot S0, followed by N
\* undo() calls each issued after the previous restore completed, end with S0
\* on top of undoStack and S0 as the restored collection (any N up to and
\* including maxStates).
C1_RoundTrip ==
    rt.phase = "undos" /\ rt.m = rt.n /\ ~isRestoring
        => Top(undoStack) = rt.s0 /\ Serialize(canvas) = rt.s0

\* C2: undo() followed by redo() leaves undoStack, redoStack and the
\* serialized collection as they were just before undo(), from any state,
\* whether or not a debounced commit is pending and whether or not the first
\* restore has completed when redo() is called.
C2_UndoRedoNoOp ==
    ur.phase = "redone" /\ ~isRestoring
        => undoStack = ur.u /\ redoStack = ur.r /\ Serialize(canvas) = ur.c

\* C3 (as stated): a burst of K saveState calls on a changed collection has
\* one commit scheduled while it runs, and yields exactly one new undoStack
\* entry when the timeout fires.
C3_BurstOneEntry ==
    /\ burst.phase = "pending" /\ Changed(burst.base, Serialize(canvas))
          => timers = 1 /\ debounceTimer = "live" /\ undoStack = burst.base
    /\ burst.phase = "fired" /\ Changed(burst.base, burst.snap)
          => timers = 0 /\ undoStack = PushLimited(burst.base, burst.snap)

\* C3 (amended): the same, for bursts whose calls are all made while neither
\* restoring nor saving; a burst made while restoring schedules nothing.
C3_AcceptedBurstOneEntry ==
    /\ burst.phase = "pending" /\ burst.accepted
          => /\ timers = 1 /\ debounceTimer = "live"
             /\ undoStack = burst.base
    /\ burst.phase = "fired" /\ burst.accepted
          => /\ timers = 0
             /\ undoStack = IF Changed(burst.base, burst.snap)
                            THEN PushLimited(burst.base, burst.snap)
                            ELSE burst.base
    /\ burst.phase = "pending" /\ ~burst.accepted
          => timers = 0 /\ undoStack = burst.base

C3_BurstCollapsed ==
    /\ burst.phase = "fired" /\ burst.accepted /\ burst.calls >= 2
    /\ Changed(burst.base, burst.snap)
    /\ undoStack = PushLimited(burst.base, burst.snap)

\* C4: every saveStateImmediate call made while neither restoring nor saving
\* (the one of applyCrop) pushes the snapshot of the collection at the time of
\* the call iff it differs from the top of undoStack, whatever debounce timer
\* is pending, which it cancels.
C4_CommitNow ==
    [][\A p \in Points :
          ApplyCrop(p) /\ ~isRestoring /\ ~isSaving
            => /\ undoStack' = IF Changed(undoStack, Serialize(canvas'))
                               THEN PushLimited(undoStack, Serialize(canvas'))
                               ELSE undoStack
               /\ Changed(undoStack, Serialize(canvas')) => redoStack' = <<>>
               /\ timers' = 0 /\ debounceTimer' = "null"]_vars

C4_CropCommitted ==
    /\ op = "applyCrop" /\ ~isRestoring
    /\ Len(undoStack) = MaxStates
    /\ Top(undoStack) = Serialize(canvas)
    /\ \E i \in AllIndices : canvas[i].src = 1

\* C5: undoStack never holds more than maxStates entries, and a commit on a
\* full stack removes the entry at index 0 and keeps the order of the others.
C5_BoundedEviction ==
    /\ [](Len(undoStack) <= MaxStates)
    /\ [][Len(undoStack) = MaxStates /\ undoStack' # undoStack
            /\ Len(undoStack') >= MaxStates
          => undoStack' = Append(Tail(undoStack), Serialize(canvas'))]_vars

C5_Evicted ==
    floor.set /\ Len(undoStack) = MaxStates /\ undoStack[1] # floor.snap

\* C6: with no clear() in between, undoStack[0] is still the snapshot that
\* was committed at start-up or by the last clear().
C6_FloorKept ==
    floor.set => undoStack # <<>> /\ undoStack[1] = floor.snap

\* C7: a delete removes, with every selected object, the container or text
\* bound to it, in the same operation, so that it never leaves one member of
\* a bound pair on the canvas without the other.
PairClosure(objs, S) ==
    (S \cup {RemovedHandlerTarget(objs, i) : i \in S}) \cap (1..Len(objs))

NoHalfPair(objs) ==
    \A i \in 1..Len(objs) :
        \A r \in {objs[i].boundText, objs[i].boundShape, objs[i].boundBubble} :
            r # 0 => OnCanvas(objs, r)

C7_CascadeDelete ==
    [][\A S \in SUBSET AllIndices :
          DeleteSelected(S)
            => /\ canvas' = Without(canvas, PairClosure(canvas, S))
               /\ NoHalfPair(canvas) => NoHalfPair(canvas')]_vars

C7_PairDeleted ==
    /\ ~isRestoring /\ debounceTimer = "live"
    /\ Len(Top(undoStack)) = 4 /\ Len(canvas) = 2
    /\ canvas[1].boundText = 2 /\ NoHalfPair(canvas)

\* C8: the references between containers and texts on the canvas are mutually
\* inverse, so no text is attached to two containers, and a text has at most
\* one of the two container references.
C8_BindingsInverse ==
    \A i \in 1..Len(canvas) :
        LET o == canvas[i]
        IN /\ o.boundText # 0 => IsBindableShape(o)
           /\ OnCanvas(canvas, o.boundText)
                 => \/ canvas[o.boundText].boundBubble = i
                    \/ canvas[o.boundText].boundShape = i
           /\ OnCanvas(canvas, o.boundShape)
                 => canvas[o.boundShape].boundText = i
           /\ OnCanvas(canvas, o.boundBubble)
                 => canvas[o.boundBubble].boundText = i
           /\ (o.boundShape # 0 \/ o.boundBubble # 0) => IsShapeText(o)
           /\ ~(o.boundShape # 0 /\ o.boundBubble # 0)

C8_RelinkedCrosswise ==
    /\ ~isRestoring /\ Len(canvas) = 4
    /\ canvas[1].boundText = 4 /\ canvas[3].boundText = 2

\* C9 (as stated): after the restore each of the two containers is bound to
\* the text that was bound to it when the snapshot was taken.
Containers(objs) == {i \in 1..Len(objs) : IsBindableShape(objs[i])}
Texts(objs) == {j \in 1..Len(objs) : IsShapeText(objs[j])}
Pairing(objs) ==
    {<<c, objs[c].boundText>> : c \in {i \in Containers(objs) : objs[i].boundText # 0}}

C9_SamePairing ==
    scene.restored
        => Cardinality(Pairing(canvas)) = 2 /\ Pairing(canvas) = Pairing(scene.orig)

\* C9 (amended): the restore yields exactly two bound pairs; they are the
\* original ones exactly when the container that comes first in the collection
\* has its own text strictly nearer than the other text, or equally near and
\* earlier in the collection.
FirstContainer(objs) ==
    CHOOSE c \in Containers(objs) : \A d \in Containers(objs) : c <= d

OwnTextWins(objs, c) ==
    LET t == objs[c].boundText
    IN \A u \in Texts(objs) \ {t} :
          \/ Dist2(objs[c], objs[t]) < Dist2(objs[c], objs[u])
          \/ Dist2(objs[c], objs[t]) = Dist2(objs[c], objs[u]) /\ t < u

C9_PairingIffFirstWins ==
    scene.restored
        => /\ Cardinality(Pairing(canvas)) = 2
           /\ {p[2] : p \in Pairing(canvas)} = Texts(canvas)
           /\ Pairing(canvas) = Pairing(scene.orig)
                 <=> OwnTextWins(scene.orig, FirstContainer(scene.orig))

C9_ConcentricKept ==
    /\ scene.restored
    /\ Pairing(canvas) = Pairing(scene.orig)
    /\ \A c \in Containers(canvas), d \in Containers(canvas) :
          Dist2(canvas[c], canvas[d]) = 0

\* C10 (as stated): c is bound to t again whenever, at the moment c is
\* processed, no other unclaimed text is at a distance from c less than or
\* equal to that of t.
RelinkBefore(objs, c) == RelinkRange(LoadFromJSON(Serialize(objs)), 1, c - 1)

Unclaimed(objs) == {j \in Texts(objs) : ~IsClaimed(objs[j])}

NoOtherAsNear(objs, c, t) ==
    LET at == RelinkBefore(objs, c)
    IN \A u \in Unclaimed(at) \ {t} : Dist2(at[c], at[u]) > Dist2(at[c], at[t])

C10_ReboundIfNearest ==
    scene.restored
        => \A c \in Containers(scene.orig) :
              LET t == scene.orig[c].boundText
              IN NoOtherAsNear(scene.orig, c, t) => canvas[c].boundText = t

\* C10 (amended): the same, provided also that t is still unclaimed at the
\* moment c is processed.
C10_ReboundIfNearestUnclaimed ==
    scene.restored
        => \A c \in Containers(scene.orig) :
              LET t == scene.orig[c].boundText
              IN t \in Unclaimed(RelinkBefore(scene.orig, c))
                 /\ NoOtherAsNear(scene.orig, c, t)
                    => canvas[c].boundText = t

C10_ReboundAmongOthers ==
    /\ scene.restored
    /\ \E c \in Containers(scene.orig) :
          LET t == scene.orig[c].boundText
          IN /\ Unclaimed(RelinkBefore(scene.orig, c)) = Texts(scene.orig)
             /\ NoOtherAsNear(scene.orig, c, t)
             /\ canvas[c].boundText = t

\* C11: between events, the text of every bound pair sits on the centre of
\* its container (above the tail for a bubble, by half the tail size times the
\* vertical scale) and has the container's scaleX, scaleY and angle, after
\* drags, scale / rotate interactions and property-panel edits.
TextPositionFor(container) ==
    IF container.shapeType = "bubble" THEN TextPositionForBubble(container)
    ELSE TextPositionForShape(container)

C11_TextFollows ==
    \A i \in AllIndices :
        OnCanvas(canvas, canvas[i].boundText)
            => LET c == canvas[i]
                   t == canvas[c.boundText]
               IN /\ <<t.x, t.y>> = TextPositionFor(c)
                  /\ t.scaleX = c.scaleX /\ t.scaleY = c.scaleY
                  /\ t.angle = c.angle

\* C12: on the empty committed document, a box drag-created with a shape tool
\* is committed with its text once the debounce fires; the following undo()
\* restores the empty collection; the following redo() restores the box and
\* its text, bound to each other in both directions with the sync / cascade
\* and edit handlers registered again, the text on the centre of the box.
C12_DrawUndoRedo ==
    /\ op = "committed"
          => undoStack = <<Serialize(<<>>), Serialize(scene.orig)>>
             /\ canvas = scene.orig
    /\ op = "undone" => canvas = <<>> /\ undoStack = <<Serialize(<<>>)>>
    /\ op = "redone"
          => /\ undoStack = <<Serialize(<<>>), Serialize(scene.orig)>>
             /\ redoStack = <<>>
             /\ Serialize(canvas) = Serialize(scene.orig)
             /\ Len(canvas) = 2
             /\ IsBindableShape(canvas[1])
             /\ canvas[1].boundText = 2 /\ canvas[2].boundShape = 1
             /\ canvas[2].boundBubble = 0
             /\ "shapeText" \in canvas[2].events
             /\ <<canvas[2].x, canvas[2].y>> = TextPositionForShape(canvas[1])

C12_BoxRedone ==
    /\ op = "redone" /\ ~isRestoring
    /\ canvas[1].shapeType = "rect" /\ canvas[1].width = 120
    /\ canvas[1].boundText = 2

\* C17: once the restore of an undo() or redo() that took effect has
\* completed, the active tool is select and no construction is in progress.
C17_SelectAfterRestore ==
    op \in {"undone", "redone"} => currentTool = "select" /\ ~isDrawingShape

\* C13: while isRestoring or isSaving is set, saveState, saveStateImmediate
\* and the commit itself change neither stack nor the pending timer; from the
\* moment a restore is issued until it has completed no step changes the
\* stacks, the completion of the restore included.
C13_NoCommitWhileRestoring ==
    /\ [](\A r \in BOOLEAN, sv \in BOOLEAN :
            r \/ sv
              => LET h == [History EXCEPT !.isRestoring = r, !.isSaving = sv]
                 IN /\ SaveState(h) = h
                    /\ SaveStateImmediate(h, canvas) = h
                    /\ DoSaveState(h, canvas) = h)
    /\ [][/\ (isRestoring /\ (AddImage \/ \E p \in Points : ApplyCrop(p))
                => UNCHANGED <<undoStack, redoStack, debounceTimer, timers>>)
           /\ (isRestoring => UNCHANGED <<undoStack, redoStack>>)]_vars

C13_CropWhileRestoring ==
    /\ op = "applyCrop" /\ isRestoring
    /\ Serialize(canvas) # Top(undoStack)
    /\ Serialize(canvas) # loading.state

\* C14: when the restore issued by undo() or redo() is rejected, undoStack
\* and redoStack equal what they were before that call, and the canvas is the
\* one the call found or a later edit of it.
C14_StacksAfterFailedRestore ==
    ur.phase = "failed" => undoStack = ur.u /\ redoStack = ur.r

\* C15: when clear() returns, redoStack is empty and undoStack holds exactly
\* the snapshot of the current canvas, a restore in flight or not.
C15_ClearLeavesOneEntry ==
    [][\A doc \in HistoryDocs :
          ImportLoaded(doc)
            => redoStack' = <<>> /\ undoStack' = <<Serialize(canvas')>>]_vars

\* C16: setTool with a name outside the accepted set leaves the current tool
\* and the rest of the tool state unchanged.
C16_UnknownToolRejected ==
    [][SetTool(UnknownTool) => UNCHANGED toolVars]_vars

\* C20: pointer-up keeps the construction on the canvas and applies the size
\* policy of the kind of shape that was begun: a dimension below its minimum
\* becomes the default, any other dimension keeps the dragged value.
C20_SizeAtPointerUp ==
    [][MouseUp
         => LET i == currentShape.ref
                kind == currentShape.shapeType
                Snap(v, min, def) == IF v < min THEN def ELSE v
            IN /\ OnCanvas(canvas, i) /\ OnCanvas(canvas', i)
               /\ kind \in BoundShapeTools
                    => /\ canvas'[i].width
                            = Snap(canvas[i].width, MinShapeWidth, DefaultShapeWidth)
                       /\ canvas'[i].height
                            = Snap(canvas[i].height, MinShapeHeight, DefaultShapeHeight)
               /\ kind = "textbox"
                    => canvas'[i].width
                         = Snap(canvas[i].width, MinTextWidth, DefaultTextWidth)
               /\ kind = "bubble"
                    => /\ canvas'[i].width
                            = Snap(canvas[i].width, MinBubbleWidth, DefaultBubbleWidth)
                       /\ canvas'[i].height
                            = Snap(canvas[i].height, MinBubbleHeight, DefaultBubbleHeight)]_vars

\* C18: for every text, created by a tool or recreated by a restore, entering
\* edit mode on a placeholder clears the content and the placeholder flag, and
\* leaving edit mode with empty or blank content sets the placeholder content
\* and the placeholder flag.
C18_PlaceholderLifecycle ==
    [][\A i \in AllIndices :
          /\ EnterEditing(i) /\ canvas[i].isPlaceholder
               => canvas'[i].text = "" /\ ~canvas'[i].isPlaceholder
          /\ ExitEditing(i) /\ Blank(canvas[i].text)
               => canvas'[i].text = PlaceholderText /\ canvas'[i].isPlaceholder]_vars

\* C19: every exit from edit mode, with no restore or commit in progress,
\* requests a commit: the debounce timer is armed.
C19_ExitRequestsCommit ==
    [][\A i \in AllIndices :
          ExitEditing(i) /\ ~isRestoring /\ ~isSaving
            => debounceTimer' = "live" /\ timers' = ClearTimeout(History) + 1]_vars

\* C21: after any sequence of pointer moves of a rect, ellipse or triangle
\* drag, the corner is at the smaller of origin and pointer on each axis and
\* the size is the distance between origin and pointer, whatever the earlier
\* pointer positions were.
C21_GeometryFromPointer ==
    op = "move" /\ currentTool \in BoundShapeTools
      => LET o == canvas[currentShape.ref]
             w == scene.orig[1]
             h == scene.orig[2]
         IN /\ o.left = Min(0, w) /\ o.top = Min(0, h)
            /\ o.width = Abs(w) /\ o.height = Abs(h)

\* C22: with a shape, text or bubble tool active, a pointer-down on an
\* existing object adds no object and starts no construction, whatever tool
\* was active before.
C22_ClickOnObjectSelects ==
    [][\A i \in AllIndices :
          op' = "downOn" /\ MouseDownOn(i) /\ currentTool \in ClickSelectTools
            => canvas' = canvas /\ ~isDrawingShape' /\ startPoint' = NoPoint]_vars

\* C23: a zero-area drag is aborted: after the pointer-up the canvas and the
\* history stacks are what they were before the pointer-down.
C23_ZeroAreaDragAborted ==
    op \in {"up", "committed"} /\ scene.orig = <<0, 0>>
      => canvas = <<>> /\ undoStack = <<Serialize(<<>>)>> /\ redoStack = <<>>

Scaffolding(snap) == \E k \in 1..Len(snap) : snap[k].name \in {"cropRect", "cropOverlay"}

\* C25: no snapshot on undoStack or redoStack contains the crop rectangle or
\* the crop overlay.
C25_NoScaffoldingInSnapshots ==
    /\ \A k \in 1..Len(undoStack) : ~Scaffolding(undoStack[k])
    /\ \A k \in 1..Len(redoStack) : ~Scaffolding(redoStack[k])

\* C26: every restore ends with isRestoring = FALSE, the promise resolving
\* or rejecting, and isRestoring is set only while a promise is outstanding.
C26_RestoreEnds ==
    /\ [](isRestoring <=> loading.active)
    /\ (isRestoring ~> ~isRestoring)

C26_RejectedRestoreEnded ==
    op = "rejected" /\ ~isRestoring /\ ~loading.active /\ redoStack # <<>>

C28_UndoNoOp ==
    [][Undo
         => /\ Len(undoStack) <= 1 \/ isRestoring
                 => UNCHANGED <<canvas, undoStack, redoStack, isRestoring, isSaving,
                                debounceTimer, timers, loading>>
            /\ undoStack # <<>>
                 => undoStack' # <<>> /\ undoStack'[1] = undoStack[1]]_vars

C28_UndoAtFloor ==
    op = "undo" /\ Len(undoStack) = 1 /\ timers = 1 /\ canvas # <<>>

C30_CommitPushesOrSkips ==
    [][TimerFire /\ ~isRestoring /\ ~isSaving
         => LET snap == Serialize(canvas)
            IN IF undoStack # <<>> /\ Top(undoStack) = snap
               THEN UNCHANGED <<undoStack, redoStack>>
               ELSE /\ redoStack' = <<>>
                    /\ undoStack' = IF Len(undoStack) + 1 > MaxStates
                                    THEN Tail(undoStack) \o <<snap>>
                                    ELSE undoStack \o <<snap>>]_vars

C30_DuplicateKeepsRedo ==
    /\ redoStack # <<>> /\ ~isRestoring
    /\ debounceTimer = "stale" /\ timers = 0
    /\ Serialize(canvas) = Top(undoStack)

\* C31: no two adjacent entries of undoStack are the same snapshot.
C31_NoAdjacentDuplicates ==
    \A k \in 1..(Len(undoStack) - 1) : undoStack[k] # undoStack[k + 1]

C31_SameSnapshotApart ==
    /\ Len(undoStack) = MaxStates /\ undoStack[1] = undoStack[3]
    /\ undoStack[1] # Serialize(<<>>)

\* C32: every bound text that is empty and not under edit is a placeholder
\* text, and no snapshot on undoStack holds an empty text that is not a
\* placeholder.
C32_EmptyBoundTextIsPlaceholder ==
    /\ \A i \in AllIndices :
          IsShapeText(canvas[i]) /\ ~canvas[i].isEditing /\ Blank(canvas[i].text)
            => canvas[i].isPlaceholder
    /\ \A k \in 1..Len(undoStack) : \A j \in 1..Len(undoStack[k]) :
          undoStack[k][j].type = "textbox" /\ Blank(undoStack[k][j].text)
            => undoStack[k][j].isPlaceholder

UserContent(o) ==
    o.type = "textbox" /\ ~Blank(o.text) /\ o.text # PlaceholderText

\* C33: a text holding user content has its placeholder flag false, on the
\* canvas and in every snapshot of both stacks, and entering edit mode on it
\* keeps the content; objects recreated by undo/redo included.
C33_UserContentKept ==
    /\ [](\A i \in AllIndices :
            UserContent(canvas[i]) /\ ~canvas[i].isEditing => ~canvas[i].isPlaceholder)
    /\ [](\A k \in 1..Len(undoStack) : \A j \in 1..Len(undoStack[k]) :
            UserContent(undoStack[k][j]) => ~undoStack[k][j].isPlaceholder)
    /\ [](\A k \in 1..Len(redoStack) : \A j \in 1..Len(redoStack[k]) :
            UserContent(redoStack[k][j]) => ~redoStack[k][j].isPlaceholder)
    /\ [][\A i \in AllIndices :
            (EnterEditing(i) /\ UserContent(canvas[i])) => canvas'[i].text = canvas[i].text]_vars

\* C34: every pointer-up that finalizes a construction issues a commit
\* request, a restore in flight or not, and the timer firing next pushes a
\* snapshot of the scene with the finalized object on top of undoStack.
C34_PointerUpCommits ==
    /\ [][MouseUp => (timers' > 0 /\ debounceTimer' = "live")]_vars
    /\ [][(op = "up" /\ TimerFire) =>
            (/\ undoStack'[Len(undoStack')] = Serialize(canvas)
             /\ canvas # <<>>)]_vars

\* C35: at most one debounced commit is pending: an accepted saveState
\* leaves exactly one timeout armed, whatever was pending before, and after a
\* timeout has fired none is left to fire a second time.
C35_OnePendingCommit ==
    /\ [](timers <= 1)
    /\ [](~isRestoring /\ ~isSaving => SaveState(History).timers = 1)
    /\ [][TimerFire => timers' = 0]_vars

C35_BurstOfRequestsOneTimer ==
    /\ burst.phase = "pending" /\ burst.calls = MaxBurst /\ burst.accepted
    /\ timers = 1 /\ debounceTimer = "live"
    /\ Len(canvas) >= 2

\* C36: undoStack and redoStack together never hold more than maxStates
\* entries, and redo() never leaves undoStack longer than maxStates.
C36_StacksWithinCapacity ==
    /\ [](Len(undoStack) + Len(redoStack) <= MaxStates)
    /\ [][Redo => Len(undoStack') <= MaxStates]_vars

C36_RedoFillsUndoStack ==
    /\ ur.phase = "redone"
    /\ Len(undoStack) = MaxStates /\ redoStack = <<>>
    /\ ur.u = undoStack /\ ur.r = redoStack

C38_RestoreReproducesSnapshot ==
    [][RestoreResolved
         => (/\ Serialize(canvas') = loading.state
             /\ Serialize(canvas') = Top(undoStack')
             /\ DoSaveState([History EXCEPT !.isRestoring = FALSE], canvas').redoStack
                  = redoStack)]_vars

\* a snapshot in which every container has a bound text: as many containers
\* as bound texts
Paired(snap) == Cardinality(Containers(snap)) = Cardinality(Texts(snap))

\* C39: no debounced commit fires between pointer-down and pointer-up, and
\* every snapshot on undoStack or redoStack holds as many rect / ellipse /
\* triangle / bubble containers as bound texts.
C39_NoSnapshotMidConstruction ==
    /\ [][isDrawingShape => ~TimerFire]_vars
    /\ [](\A k \in 1..Len(undoStack) : Paired(undoStack[k]))
    /\ [](\A k \in 1..Len(redoStack) : Paired(redoStack[k]))

\* C40: every bound text has its container on the canvas, and every rect /
\* ellipse / triangle / bubble on the canvas other than the shape under
\* construction has its bound text on the canvas; a construction is finalized
\* under the tool it was begun with.
C40_PairsComplete ==
    /\ [](\A i \in AllIndices :
            IsShapeText(canvas[i])
              => \E c \in AllIndices : c # i /\ canvas[c].boundText = i)
    /\ [](\A i \in AllIndices :
            IsBindableShape(canvas[i]) /\ ~(isDrawingShape /\ currentShape.ref = i)
              => OnCanvas(canvas, canvas[i].boundText))
    /\ [][MouseUp
            => (/\ currentTool \in ClickSelectTools
                /\ CreatedShape(currentTool, startPoint).shapeType
                     = currentShape.shapeType)]_vars

====
